---- MODULE Spec2Model ----
(***************************************************************************)
(* Model of leap_dns.py: the checksum crc8, the encoder enc (which packs   *)
(* month number, leap-second polarity and UTC-TAI difference into a 32 bit *)
(* word written as a dotted quad) and the decoder dec.                     *)
(*                                                                         *)
(* The three functions are pure.  A behaviour of the model is one call:    *)
(* the initial state holds the arguments of a pending call, the action     *)
(* runs the whole function and stores what it returned or raised.          *)
(***************************************************************************)
EXTENDS Integers, Sequences, FiniteSets

VARIABLES pc, arg, ret

vars == <<pc, arg, ret>>

----------------------------------------------------------------------------
(* Python integers are unbounded, two's complement with an infinite sign   *)
(* extension.  The 32 bit word does not fit the integers of the model      *)
(* checker, so an integer the code applies &, |, ^, << or >> to is the     *)
(* record [neg, bits]: bits is the set of positions of the 1 bits of the   *)
(* value when neg is FALSE, and of the 0 bits (the 1 bits of ~value) when  *)
(* neg is TRUE.                                                            *)

RECURSIVE SumBits(_, _)
SumBits(S, k) ==
    IF k < 0 THEN 0
    ELSE (IF k \in S THEN 2 ^ k ELSE 0) + SumBits(S, k - 1)

BitsOf(n) == {k \in 0..30 : (n \div (2 ^ k)) % 2 = 1}

\* the record of an integer of magnitude below 2^31
Big(n) ==
    IF n < 0 THEN [neg |-> TRUE, bits |-> BitsOf(-n - 1)]
    ELSE [neg |-> FALSE, bits |-> BitsOf(n)]

\* the integer of a record of magnitude below 2^31
Small(x) ==
    LET top == IF x.bits = {} THEN 0
               ELSE CHOOSE k \in x.bits : \A h \in x.bits : h <= k
        mag == SumBits(x.bits, top)
    IN  IF x.neg THEN -mag - 1 ELSE mag

Zero == [neg |-> FALSE, bits |-> {}]

SymDiff(S, T) == (S \ T) \cup (T \ S)

\* p & q
And(p, q) ==
    IF ~p.neg /\ ~q.neg THEN [neg |-> FALSE, bits |-> p.bits \cap q.bits]
    ELSE IF ~p.neg /\ q.neg THEN [neg |-> FALSE, bits |-> p.bits \ q.bits]
    ELSE IF p.neg /\ ~q.neg THEN [neg |-> FALSE, bits |-> q.bits \ p.bits]
    ELSE [neg |-> TRUE, bits |-> p.bits \cup q.bits]

\* p | q
Or(p, q) ==
    IF ~p.neg /\ ~q.neg THEN [neg |-> FALSE, bits |-> p.bits \cup q.bits]
    ELSE IF ~p.neg /\ q.neg THEN [neg |-> TRUE, bits |-> q.bits \ p.bits]
    ELSE IF p.neg /\ ~q.neg THEN [neg |-> TRUE, bits |-> p.bits \ q.bits]
    ELSE [neg |-> TRUE, bits |-> p.bits \cap q.bits]

\* p ^ q
Xor(p, q) == [neg |-> (p.neg # q.neg), bits |-> SymDiff(p.bits, q.bits)]

\* ~p
Not(p) == [neg |-> ~p.neg, bits |-> p.bits]

\* p << k
Shl(p, k) ==
    IF p.neg
    THEN [neg |-> TRUE, bits |-> {h + k : h \in p.bits} \cup (0..(k - 1))]
    ELSE [neg |-> FALSE, bits |-> {h + k : h \in p.bits}]

\* p >> k
Shr(p, k) == [neg |-> p.neg, bits |-> {h - k : h \in {g \in p.bits : g >= k}}]

----------------------------------------------------------------------------
(* Exceptions: a call returns [ok |-> TRUE, ...] or [ok |-> FALSE, exc].   *)

AssertionError == [ok |-> FALSE, exc |-> "AssertionError"]

ValueError == [ok |-> FALSE, exc |-> "ValueError"]

----------------------------------------------------------------------------
(* crc8(b, n)                                                              *)

\* a different generator polynomial, 0x101
poly_weak == Shl(Big(257), 23)

poly == Shl(Big(303), 23)

\* the start value with its last digit mistyped, 0x54a9abf9
seed_typo == Big(1420405753)

seed == Big(1420405752)

\* One pass of the loop body; st is [ok, crc].
crc8_step(st) ==
    IF ~st.ok THEN st
    ELSE LET c1 == IF And(st.crc, Shl(Big(1), 31)) # Zero
                   THEN Xor(st.crc, poly) ELSE st.crc
         IN  IF And(c1, Shl(Big(1), 31)) # Zero \/ c1.neg
             THEN [ok |-> FALSE, crc |-> c1]
             ELSE [ok |-> TRUE, crc |-> Shl(c1, 1)]

RECURSIVE crc8_loop(_, _)
crc8_loop(st, i) ==
    IF i = 0 THEN st ELSE crc8_loop(crc8_step(st), i - 1)

crc8(b, n) ==
    IF And(poly, Shl(Big(1), 31)) = Zero THEN AssertionError
    ELSE IF b.neg THEN AssertionError
    ELSE LET crc == Xor(seed, Shl(b, 32 - n))
         IN  IF crc.neg THEN AssertionError
             ELSE LET st == crc8_loop([ok |-> TRUE, crc |-> crc], n)
                  IN  IF ~st.ok THEN AssertionError
                      ELSE [ok |-> TRUE, v |-> Shr(st.crc, 24)]

----------------------------------------------------------------------------
(* Text: a string is a sequence of one-character strings.                  *)

Digits == <<"0", "1", "2", "3", "4", "5", "6", "7", "8", "9">>

DigitChars == {Digits[k] : k \in 1..10}

DigitVal(ch) == (CHOOSE k \in 1..10 : Digits[k] = ch) - 1

\* "%d" % n for n >= 0
RECURSIVE FormatNat(_)
FormatNat(n) ==
    IF n < 10 THEN <<Digits[n + 1]>>
    ELSE FormatNat(n \div 10) \o <<Digits[(n % 10) + 1]>>

\* "%d" % n
FormatD(n) == IF n < 0 THEN <<"-">> \o FormatNat(-n) ELSE FormatNat(n)

\* the bytes written least significant first
FormatQuad_reversed(z) ==
    FormatD(z[4]) \o <<".">> \o FormatD(z[3]) \o <<".">> \o
    FormatD(z[2]) \o <<".">> \o FormatD(z[1])

\* "%d.%d.%d.%d" % (z[0], z[1], z[2], z[3])
FormatQuad(z) ==
    FormatD(z[1]) \o <<".">> \o FormatD(z[2]) \o <<".">> \o
    FormatD(z[3]) \o <<".">> \o FormatD(z[4])

\* i.split(".")
RECURSIVE split(_)
split(s) ==
    IF \A k \in 1..Len(s) : s[k] # "."
    THEN <<s>>
    ELSE LET d == CHOOSE k \in 1..Len(s) :
                      s[k] = "." /\ \A h \in 1..(k - 1) : s[h] # "."
         IN  <<SubSeq(s, 1, d - 1)>> \o split(SubSeq(s, d + 1, Len(s)))

RECURSIVE ParseNat(_)
ParseNat(t) ==
    IF t = <<>> THEN 0
    ELSE 10 * ParseNat(SubSeq(t, 1, Len(t) - 1)) + DigitVal(t[Len(t)])

\* int(t): an optional sign and at least one decimal digit
int(t) ==
    LET signed == t # <<>> /\ t[1] \in {"+", "-"}
        body   == IF signed THEN Tail(t) ELSE t
    IN  IF body = <<>> \/ \E k \in 1..Len(body) : body[k] \notin DigitChars
        THEN ValueError
        ELSE [ok |-> TRUE,
              v  |-> IF signed /\ t[1] = "-" THEN -ParseNat(body)
                     ELSE ParseNat(body)]

----------------------------------------------------------------------------
(* dec(i): the returned string "OK  yyyy mm  +bb +d" / "BAD xx yyyy ..."   *)
(* is modelled by the values that are formatted into it: status is         *)
(* <<"OK">> or <<"BAD", crc>>, followed by y, m, b and dt.                 *)

\* lines 45-48
dec_word(n) ==
    Or(Or(Or(Shl(Big(n[1]), 24), Shl(Big(n[2]), 16)), Shl(Big(n[3]), 8)),
       Big(n[4]))

\* a test of the three top bits only
dec_marker_loose(w) == Shr(w, 29) = Big(7)

\* line 50
dec_marker(w) == Shr(w, 28) = Big(15)

\* the stored check byte reported in place of the computed one
dec_status_stored(w28, c) ==
    IF c = Big(128) THEN <<"OK">> ELSE <<"BAD", Small(And(w28, Big(255)))>>

\* a comparison with zero in place of 0x80
dec_status_zero(w28, c) ==
    IF c = Zero THEN <<"OK">> ELSE <<"BAD", Small(c)>>

\* lines 53-56; c is crc8(w, 28), which line 56 computes a second time
dec_status(w28, c) ==
    IF c = Big(128) THEN <<"OK">> ELSE <<"BAD", Small(c)>>

\* the month number moved by 11 in place of 10
dec_date_shifted(mn0) ==
    LET mn == mn0 + 11
    IN  [m |-> (mn % 12) + 1, y |-> (mn \div 12) + 1971]

\* lines 66-68; mn is not negative, so mn / 12 is the floor in Python 2 and,
\* once formatted with %04d, in Python 3
dec_date(mn0) ==
    LET mn == mn0 + 10
    IN  [m |-> (mn % 12) + 1, y |-> (mn \div 12) + 1971]

\* lines 70-77
dec_delta(d) ==
    IF d = 2 THEN 1
    ELSE IF d = 3 THEN 2
    ELSE IF d = 1 THEN -1
    ELSE 0

\* lines 53-82, from the 28 bit word and its crc to the formatted fields
dec_fields(w28, c) ==
    LET w1 == Shr(w28, 8)
        b  == And(w1, Big(127))
        w2 == Shr(w1, 7)
        d  == And(w2, Big(3))
        w3 == Shr(w2, 2)
        ym == dec_date(Small(w3))
    IN  [ok |-> TRUE, status |-> dec_status(w28, c), y |-> ym.y,
         m |-> ym.m, b |-> Small(b), dt |-> dec_delta(Small(d))]

dec(i) ==
    LET j == split(i)
    IN  IF Len(j) # 4 THEN AssertionError
        ELSE LET n == [k \in 1..4 |-> int(j[k])]
             IN  IF \E k \in 1..4 : ~n[k].ok THEN ValueError
                 ELSE LET w0 == dec_word([k \in 1..4 |-> n[k].v])
                      IN  IF ~dec_marker(w0) THEN AssertionError
                          ELSE LET w28 == And(w0, Big((2 ^ 28) - 1))
                                   c   == crc8(w28, 28)
                               IN  IF ~c.ok THEN c
                                   ELSE dec_fields(w28, c.v)

----------------------------------------------------------------------------
(* enc(y, m, b, a): the printed line is modelled by the word w, the bytes  *)
(* z, the text i and dec(i).                                               *)

\* any increase taken for an inserted second, any decrease for a removed
enc_polarity_sign(w, b, a) ==
    IF a > b THEN Or(w, Big(2))
    ELSE IF a < b THEN Or(w, Big(1))
    ELSE w

\* lines 94-97
enc_polarity(w, b, a) ==
    IF a = b + 1 THEN Or(w, Big(2))
    ELSE IF a = b - 1 THEN Or(w, Big(1))
    ELSE w

\* lines 103-110: append the check byte and verify the result
AddCRC8(w20) ==
    LET c == crc8(w20, 20)
    IN  IF ~c.ok THEN c
        ELSE LET w28 == Or(Shl(w20, 8), c.v)
             IN  IF And(w28, Not(Big((2 ^ 28) - 1))) # Zero
                 THEN AssertionError
                 ELSE LET c2 == crc8(w28, 28)
                      IN  IF ~c2.ok THEN c2
                          ELSE IF c2.v # Big(128) THEN AssertionError
                          ELSE [ok |-> TRUE, w |-> w28]

enc(y, m, b, a) ==
    LET w0 == (y - 1971) * 12 + m - 11
    IN  IF ~(w0 < 2048) THEN AssertionError
        ELSE LET w1 == Shl(Big(w0), 2)
                 w2 == enc_polarity(w1, b, a)
                 w3 == Or(Shl(w2, 7), Big(b))
                 r  == AddCRC8(w3)
             IN  IF ~r.ok THEN r
                 ELSE LET w == Or(r.w, Shl(Big(15), 28))
                          z == <<Small(Shr(w, 24)),
                                 Small(And(Shr(w, 16), Big(255))),
                                 Small(And(Shr(w, 8), Big(255))),
                                 Small(And(w, Big(255)))>>
                          i == FormatQuad(z)
                          d == dec(i)
                      IN  IF ~d.ok THEN d
                          ELSE [ok |-> TRUE, w |-> w, z |-> z, i |-> i,
                                decoded |-> d]

----------------------------------------------------------------------------
(* Calls.  The initial state holds the arguments of one pending call; the  *)
(* action runs it.  There is one specification for each function called.   *)

Pending == [ok |-> FALSE, exc |-> "pending"]

\* enc(y, m, b, a) with a = b + j

SpanYears == 1

MaxJump == 2

EncYears == {1970, 1971, 1972, 2100, 2141, 2142} \cup
            (2016..(2016 + SpanYears - 1))

EncMonths == -1..13

EncOffsets == {-1, 0, 36, 127, 128, 300, 1048576}

InitEnc ==
    /\ pc = "enc"
    /\ arg \in [y : EncYears, m : EncMonths, b : EncOffsets,
                j : (-MaxJump)..MaxJump]
    /\ ret = Pending

EncCall ==
    /\ pc = "enc"
    /\ pc' = "done"
    /\ ret' = enc(arg.y, arg.m, arg.b, arg.b + arg.j)
    /\ UNCHANGED arg

NextEnc == EncCall

SpecEnc == InitEnc /\ [][NextEnc]_vars

----------------------------------------------------------------------------
(* dec(i) on a text i.                                                     *)

NumPayloads == 2

\* 20 bit values month<<9 | polarity<<7 | offset; the first one is
\* December 2016, a second inserted, offset 36
SamplePayloads == {(277284 * k) % 1048576 : k \in 1..NumPayloads}

RECURSIVE Join(_)
Join(ts) ==
    IF Len(ts) = 1 THEN ts[1] ELSE ts[1] \o <<".">> \o Join(Tail(ts))

DecTokens == {FormatD(n) : n \in {-1, 0, 240, 255, 256}} \cup {<<"a">>, <<>>}

FewTokens == {FormatD(240), FormatD(0)}

\* the text of the word marker<<28 | p20<<8 | c
QuadOf(marker, p20, c) ==
    FormatQuad(<<(marker * 16) + (p20 \div 65536), (p20 \div 256) % 256,
                 p20 % 256, c>>)

DecTexts ==
    {Join(ts) : ts \in [1..4 -> DecTokens]}
    \cup {Join(ts) : ts \in [1..3 -> FewTokens]}
    \cup {Join(ts) : ts \in [1..5 -> FewTokens]}
    \cup {QuadOf(mk, p, c) : mk \in {0, 14, 15}, p \in SamplePayloads,
                             c \in 0..255}

InitDec ==
    /\ pc = "dec"
    /\ arg \in [i : DecTexts]
    /\ ret = Pending

DecCall ==
    /\ pc = "dec"
    /\ pc' = "done"
    /\ ret' = dec(arg.i)
    /\ UNCHANGED arg

NextDec == DecCall

SpecDec == InitDec /\ [][NextDec]_vars

\* dec(i) on the text of a word that was printed by enc and then had one,
\* two or three of its low 28 bits inverted: p20 is the value before the
\* check byte was appended, flips the positions of the inverted bits.

FlipSets == {{f1, f2, f3} : f1, f2, f3 \in 0..27}

\* p20<<8 | crc8(p20, 20)
Sent(p20) == Or(Shl(Big(p20), 8), crc8(Big(p20), 20).v)

\* the text of 0xf<<28 | w28
TextOf(w28) ==
    LET w == Or(w28, Shl(Big(15), 28))
    IN  FormatQuad(<<Small(Shr(w, 24)), Small(And(Shr(w, 16), Big(255))),
                     Small(And(Shr(w, 8), Big(255))),
                     Small(And(w, Big(255)))>>)

Received(p20, flips) == Xor(Sent(p20), [neg |-> FALSE, bits |-> flips])

InitFlip ==
    /\ pc = "dec"
    /\ \E p \in SamplePayloads, S \in FlipSets :
           arg = [i |-> TextOf(Received(p, S)), p20 |-> p, flips |-> S]
    /\ ret = Pending

SpecFlip == InitFlip /\ [][NextDec]_vars

\* lines 103-110 of enc on the 20 bit value month<<9 | polarity<<7 | offset

NumMonths == 3

CrcMonths == {0, 541, 2047} \cup {(409 * k) % 2048 : k \in 1..NumMonths}

InitCrc ==
    /\ pc = "crc"
    /\ arg \in [idx : CrcMonths, code : 0..3, off : 0..127]
    /\ ret = Pending

AddCRC8Call ==
    /\ pc = "crc"
    /\ pc' = "done"
    /\ ret' = AddCRC8(Big((arg.idx * 512) + (arg.code * 128) + arg.off))
    /\ UNCHANGED arg

NextCrc == AddCRC8Call

SpecCrc == InitCrc /\ [][NextCrc]_vars

----------------------------------------------------------------------------
(* Properties of enc, checked under SpecEnc.                               *)

\* the month number of a year and a month
MonthIndex(y, m) == (y - 1971) * 12 + m - 11

\* the polarity code of an offset b followed by an offset a
PolarityCode(b, a) == IF a = b + 1 THEN 2 ELSE IF a = b - 1 THEN 1 ELSE 0

Clamp(n) == IF n < 0 THEN 0 ELSE IF n > 127 THEN 127 ELSE n

EncDone == pc = "done" /\ "j" \in DOMAIN arg

\* the year, month, offset and polarity of the call are read back from
\* the text the call printed
ReadBack ==
    /\ ret.ok
    /\ ret.decoded = dec(ret.i)
    /\ ret.decoded.status = <<"OK">>
    /\ ret.decoded.y = arg.y
    /\ ret.decoded.m = arg.m
    /\ MonthIndex(ret.decoded.y, ret.decoded.m) = MonthIndex(arg.y, arg.m)
    /\ ret.decoded.b = arg.b
    /\ ((ret.z[2] % 2) * 2) + (ret.z[3] \div 128)
           = PolarityCode(arg.b, arg.b + arg.j)
    /\ ret.decoded.dt = dec_delta(PolarityCode(arg.b, arg.b + arg.j))

C1_Case ==
    /\ EncDone
    /\ arg.y \in 1971..2100
    /\ arg.m \in 1..12
    /\ arg.b \in 0..127
    /\ \E delta \in {-1, 0, 1} : arg.b + arg.j = Clamp(arg.b + delta)

\* C1 as stated: for every year in 1971..2100, month in 1..12, offset in
\* 0..127 and after = offset + delta clamped to 0..127, enc completes and
\* dec of its text reports OK with the same year, month, polarity and offset.
C1_AsStated == C1_Case => ReadBack

\* C1 amended: the round trip of C1 holds for the years 1971..2100 and
\* months 1..12 whose month number (year-1971)*12+month-11 is not negative,
\* that is from November 1971 on.
C1_RoundTrip == (C1_Case /\ MonthIndex(arg.y, arg.m) >= 0) => ReadBack

C1_Witness ==
    /\ C1_Case
    /\ arg.y = 2016 /\ arg.m = 12 /\ arg.b = 36 /\ arg.j = 1
    /\ ret.ok
    /\ ret.decoded.status = <<"OK">>
    /\ ret.decoded.dt = 1

InRange ==
    /\ MonthIndex(arg.y, arg.m) \in 0..2047
    /\ arg.b \in 0..127

\* C4: for month number i in 0..2047, offset b in 0..127 and polarity code
\* c, the word is 0xF<<28 | i<<17 | c<<15 | b<<8 | crc8(i<<9 | c<<7 | b, 20);
\* the text is its four bytes, most significant first, each in 0..255, the
\* first in 240..255 and the last equal to the check byte.
C4_WordLayout ==
    (EncDone /\ InRange) =>
        LET i   == MonthIndex(arg.y, arg.m)
            c   == PolarityCode(arg.b, arg.b + arg.j)
            b   == arg.b
            chk == crc8(Big((i * 512) + (c * 128) + b), 20)
            t   == split(ret.i)
        IN  /\ ret.ok
            /\ chk.ok
            /\ ret.w = [neg  |-> FALSE,
                        bits |-> {28, 29, 30, 31}
                                 \cup {k + 17 : k \in BitsOf(i)}
                                 \cup {k + 15 : k \in BitsOf(c)}
                                 \cup {k + 8 : k \in BitsOf(b)}
                                 \cup chk.v.bits]
            /\ ret.z = <<240 + (i \div 128),
                         ((i % 128) * 2) + (c \div 2),
                         ((c % 2) * 128) + b,
                         Small(chk.v)>>
            /\ \A k \in 1..4 : ret.z[k] \in 0..255
            /\ ret.z[1] \in 240..255
            /\ Len(t) = 4
            /\ \A k \in 1..4 : int(t[k]) = [ok |-> TRUE, v |-> ret.z[k]]
            /\ ret.i = FormatD(ret.z[1]) \o <<".">> \o FormatD(ret.z[2])
                       \o <<".">> \o FormatD(ret.z[3]) \o <<".">>
                       \o FormatD(ret.z[4])

C4_Witness ==
    /\ EncDone
    /\ InRange
    /\ arg.y = 2016 /\ arg.m = 12 /\ arg.b = 36 /\ arg.j = 1
    /\ ret.ok
    /\ ret.z = <<244, 59, 36, 40>>

\* C6: whenever the month number is outside 0..2047 or the offset b is
\* outside 0..127, enc stops with a failed assertion and prints no word or
\* text.
C6_FailFast == (EncDone /\ ~InRange) => ret = AssertionError

\* C9: for every y and m (m = 0 included) with month number i in 0..2047,
\* b in 0..127 and every a, dec of the text of enc(y, m, b, a) reports OK,
\* year (i+10) div 12 + 1971, month ((i+10) mod 12) + 1 in 1..12 with
\* (year-1971)*12+month-11 = i, offset b, and delta +1 if a = b+1, -1 if
\* a = b-1 and 0 for every other a.
C9_DecodeResult ==
    (EncDone /\ InRange) =>
        LET i == MonthIndex(arg.y, arg.m)
            a == arg.b + arg.j
        IN  /\ ret.ok
            /\ ret.decoded.status = <<"OK">>
            /\ ret.decoded.y = ((i + 10) \div 12) + 1971
            /\ ret.decoded.m = ((i + 10) % 12) + 1
            /\ ret.decoded.m \in 1..12
            /\ MonthIndex(ret.decoded.y, ret.decoded.m) = i
            /\ ret.decoded.b = arg.b
            /\ ret.decoded.dt = (IF a = arg.b + 1 THEN 1
                                 ELSE IF a = arg.b - 1 THEN -1
                                 ELSE 0)

C9_Witness ==
    /\ EncDone
    /\ InRange
    /\ arg.m = 0 /\ arg.y = 1972 /\ arg.b = 127 /\ arg.j = 2
    /\ ret.ok
    /\ ret.decoded.y = 1971 /\ ret.decoded.m = 12
    /\ ret.decoded.dt = 0

----------------------------------------------------------------------------
(* Properties of the check byte, checked under SpecCrc.                    *)

CrcDone == pc = "done" /\ "idx" \in DOMAIN arg

\* C2: for month number in 0..2047, polarity code in 0..3 and offset in
\* 0..127, with payload20 = index<<9 | code<<7 | offset and payload28 =
\* payload20<<8 | crc8(payload20, 20), crc8(payload28, 28) is 0x80, so the
\* assertion of line 110 does not fail.
C2_ChecksumIdentity ==
    CrcDone =>
        LET p20 == (arg.idx * 512) + (arg.code * 128) + arg.off
            chk == crc8(Big(p20), 20)
        IN  /\ ret.ok
            /\ chk.ok
            /\ ret.w = Big((p20 * 256) + Small(chk.v))
            /\ crc8(ret.w, 28) = [ok |-> TRUE, v |-> Big(128)]

C2_Witness ==
    /\ CrcDone
    /\ arg.idx = 2047 /\ arg.code = 3 /\ arg.off = 127
    /\ ret.ok
    /\ crc8(ret.w, 28) = [ok |-> TRUE, v |-> Big(128)]

----------------------------------------------------------------------------
(* Properties of dec, checked under SpecFlip and SpecDec.                  *)

FlipDone == pc = "done" /\ "flips" \in DOMAIN arg

\* C3: when one, two or three bits among bits 0..27 of a 28 bit value with
\* crc8 0x80 are inverted, crc8 of the result is not 0x80 and dec reports
\* BAD.
C3_ErrorDetection ==
    (/\ FlipDone
     /\ crc8(Sent(arg.p20), 28) = [ok |-> TRUE, v |-> Big(128)]
     /\ Cardinality(arg.flips) \in 1..3
     /\ arg.flips \subseteq 0..27
     /\ arg.i = TextOf(Received(arg.p20, arg.flips)))
    => /\ ret.ok
       /\ ret.status[1] = "BAD"
       /\ crc8(Received(arg.p20, arg.flips), 28).v # Big(128)

C3_Witness ==
    /\ FlipDone
    /\ crc8(Sent(arg.p20), 28) = [ok |-> TRUE, v |-> Big(128)]
    /\ arg.flips = {0, 13, 27}
    /\ ret.ok
    /\ ret.status[1] = "BAD"

DecDone == pc = "done" /\ DOMAIN arg = {"i"}

\* the tokens of the text are four decimal integers
Numeric(text) ==
    /\ Len(split(text)) = 4
    /\ \A k \in 1..4 : int(split(text)[k]).ok

TokenValues(text) == [k \in 1..4 |-> int(split(text)[k]).v]

\* the text is four dot-separated integers in 0..255
WellFormed(text) ==
    /\ Numeric(text)
    /\ \A k \in 1..4 : TokenValues(text)[k] \in 0..255

\* bits 27..8 and bits 27..0 of the word of a well formed text
Payload20(o) == ((o[1] % 16) * 65536) + (o[2] * 256) + o[3]

Payload28(o) == (Payload20(o) * 256) + o[4]

\* C5: dec raises, and returns nothing, for every text that is not four
\* dot-separated integers each in 0..255.
C5_Rejects == (DecDone /\ ~WellFormed(arg.i)) => ~ret.ok

\* C7: dec fails with an error for every text whose word has word >> 28
\* different from 0xF, whatever the low 28 bits are.
C7_MarkerRejection ==
    /\ (DecDone /\ Numeric(arg.i)
           /\ Shr(dec_word(TokenValues(arg.i)), 28) # Big(15))
       => ret = AssertionError
    /\ (DecDone /\ WellFormed(arg.i)
           /\ TokenValues(arg.i)[1] \div 16 # 15)
       => ret = AssertionError

C7_Witness ==
    /\ DecDone
    /\ WellFormed(arg.i)
    /\ TokenValues(arg.i)[1] \div 16 = 14
    /\ crc8(Big(Payload28(TokenValues(arg.i))), 28).v = Big(128)
    /\ ret = AssertionError

\* a well formed text with the marker but a crc8 other than 0x80
C8_Case ==
    /\ DecDone
    /\ WellFormed(arg.i)
    /\ TokenValues(arg.i)[1] \div 16 = 15
    /\ crc8(Big(Payload28(TokenValues(arg.i))), 28).v # Big(128)

\* C8: for a text of 4 octets whose word has the marker 0xF and whose low
\* 28 bits p have crc8(p, 28) other than 0x80, dec does not fail: it returns
\* BAD with crc8(p, 28) and the year, month, offset and delta of bits 27..8,
\* the same as for the text with the valid check byte.
C8_BadIsReported ==
    C8_Case =>
        LET o    == TokenValues(arg.i)
            p20  == Payload20(o)
            idx  == p20 \div 512
            good == dec(QuadOf(15, p20, Small(crc8(Big(p20), 20).v)))
        IN  /\ ret.ok
            /\ ret.status = <<"BAD", Small(crc8(Big(Payload28(o)), 28).v)>>
            /\ ret.y = ((idx + 10) \div 12) + 1971
            /\ ret.m = ((idx + 10) % 12) + 1
            /\ ret.b = p20 % 128
            /\ ret.dt = dec_delta((p20 \div 128) % 4)
            /\ good.ok
            /\ good.status = <<"OK">>
            /\ <<ret.y, ret.m, ret.b, ret.dt>>
                   = <<good.y, good.m, good.b, good.dt>>

C8_Witness ==
    /\ C8_Case
    /\ TokenValues(arg.i)[4] # 255
    /\ Payload20(TokenValues(arg.i)) = 277284
    /\ ret.ok
    /\ ret.status[1] = "BAD"
    /\ ret.y = 2016 /\ ret.m = 12 /\ ret.b = 36 /\ ret.dt = 1

\* C10: for a 28 bit value p, crc8(p, 28) is 0x80 exactly when p & 0xFF is
\* crc8(p >> 8, 20), and dec reports OK exactly then.
C10_CheckByte ==
    (DecDone /\ WellFormed(arg.i) /\ TokenValues(arg.i)[1] \div 16 = 15) =>
        LET o     == TokenValues(arg.i)
            match == o[4] = Small(crc8(Big(Payload20(o)), 20).v)
        IN  /\ ret.ok
            /\ (crc8(Big(Payload28(o)), 28).v = Big(128)) <=> match
            /\ (ret.status = <<"OK">>) <=> match

C10_Witness ==
    /\ DecDone
    /\ WellFormed(arg.i)
    /\ TokenValues(arg.i) = <<244, 59, 36, 40>>
    /\ ret.ok
    /\ ret.status = <<"OK">>

====
